---- MODULE Spec2Model ----
(***************************************************************************)
(* Clinica AI (src/main.py): the symptom encoder, the five-table lookup    *)
(* (helper), and the two Streamlit buttons that drive them, as a state     *)
(* machine.  Module-level data loaded at import time are the constant      *)
(* part of the state; st.session_state and the output of the last script   *)
(* run are the changing part.                                              *)
(***************************************************************************)
EXTENDS Naturals, Sequences, FiniteSets, TLC

\* ------------------------------------------------------------ bounds
MaxRows == 2    \* rows of a reference table drawn in InitLookup
MaxSel  == 2    \* length of a symptom list handed to get_predicted_value
MaxCols == 2    \* feature columns of the training table drawn in InitEncode

VARIABLES
    training_columns,  \* training_df.columns: feature names, then the label column
    symptoms_dict,     \* name -> offset, built once from training_columns
    svc,               \* the unpickled classifier: indicator row -> label
    description,       \* description.csv   rows [Disease, Description]
    precautions,       \* precautions_df.csv rows [Disease, Precaution_1..4]
    medications,       \* medications.csv   rows [Disease, Medication]
    diets,             \* diets.csv         rows [Disease, Diet]
    workout,           \* workout_df.csv    rows [disease, workout]
    page,              \* the sidebar radio's selection
    session_state,     \* st.session_state: a dict, keys appear when first written
    ret,               \* what the last call or script run produced
    seen               \* history: label -> the bundle helper first returned for it

tables == <<description, precautions, medications, diets, workout>>
loaded == <<training_columns, symptoms_dict, svc, tables>>
vars   == <<loaded, page, session_state, ret, seen>>

\* ------------------------------------------------------------ cells
\* A cell of a text column as pandas.read_csv delivers it: a str, or NaN (a
\* float) for an empty cell.  Precaution cells may be empty; they are a
\* sequence of zero (NaN) or one (the str) strings.
NaN     == <<>>
Text(s) == <<s>>

\* bool(p): NaN is a non-zero float and truthy; a str is truthy unless "".
truthy(p) == p = NaN \/ p[1] # ""
\* str(p): the float NaN prints as "nan".
str(p) == IF p = NaN THEN "nan" ELSE p[1]
\* s.strip() on the texts of this model: only the all-blank ones change.
strip(s) == IF s \in {"", " ", "  "} THEN "" ELSE s

\* ------------------------------------------------------------ universes
DiseaseKeys == {"Fungal infection", "fungal infection"}
Labels      == DiseaseKeys \cup {"Acne"}
Pages       == {"Predict Disease", "About Model", "Contact Support"}
FeatureNames == {"itching", "skin_rash", "nodal_skin_eruptions"}
Names       == FeatureNames \cup {"head_ache"}

DescriptionRows ==
    [Disease : DiseaseKeys,
     Description : {"A fungal infection is common.", "Itchy skin."}]
PrecautionFields ==
    { <<Text("bath twice"), NaN, Text("keep infected area dry"), Text(" ")>>,
      <<Text("use detol"), Text("use clean cloths"), Text("rest"), Text("eat well")>> }
PrecautionRows ==
    { [Disease |-> k, Precaution_1 |-> f[1], Precaution_2 |-> f[2],
       Precaution_3 |-> f[3], Precaution_4 |-> f[4]]
      : k \in DiseaseKeys, f \in PrecautionFields }
MedicationRows == [Disease : DiseaseKeys, Medication : {"Antifungal Cream", "Fluconazole"}]
DietRows       == [Disease : DiseaseKeys, Diet : {"Antifungal Diet", "Probiotics"}]
WorkoutRows    == [disease : DiseaseKeys, workout : {"Avoid sugary foods", "Stay hydrated"}]

\* All tables of at most n rows over a row universe.
TablesUpTo(rows, n) == UNION { [1..k -> rows] : k \in 0..n }

\* Lists without repetition (what st.multiselect returns; distinct column names).
Distinct(s) == \A i, j \in 1..Len(s) : i # j => s[i] # s[j]
ListsUpTo(S, n)     == UNION { [1..k -> S] : k \in 0..n }
DistinctUpTo(S, n)  == { s \in ListsUpTo(S, n) : Distinct(s) }

\* ------------------------------------------------------------ startup
\* symptoms_dict = {symptom: i for i, symptom in enumerate(columns[:-1])}
BuildIndex(columns) ==
    [ name \in { columns[i] : i \in 1..(Len(columns) - 1) } |->
        (CHOOSE i \in 1..(Len(columns) - 1) : columns[i] = name) - 1 ]

\* list(symptoms_dict.keys()): insertion order, which is offset order.
DictKeys(d) ==
    [ i \in 1..Cardinality(DOMAIN d) |-> CHOOSE name \in DOMAIN d : d[name] = i - 1 ]

Vectors(n) == [1..n -> {0, 1}]

\* The classifier is opaque: any function of the indicator row.  The ones
\* drawn here answer by the first feature.
Classifiers(n) ==
    { [v \in Vectors(n) |-> IF v[1] = 1 THEN a ELSE b]
      : <<a, b>> \in { <<"Fungal infection", "Acne">>, <<"Acne", "Fungal infection">> } }

BaseDescription == << [Disease |-> "Fungal infection", Description |-> "A fungal infection is common."] >>
BasePrecautions ==
    << [Disease |-> "Fungal infection", Precaution_1 |-> Text("bath twice"), Precaution_2 |-> NaN,
        Precaution_3 |-> Text("keep infected area dry"), Precaution_4 |-> Text(" ")] >>
BaseMedications == << [Disease |-> "Fungal infection", Medication |-> "Antifungal Cream"] >>
BaseDiets       == << [Disease |-> "Fungal infection", Diet |-> "Antifungal Diet"] >>
BaseWorkout     == << [disease |-> "Fungal infection", workout |-> "Avoid sugary foods"] >>

Started ==
    /\ page = "Predict Disease"
    /\ session_state = <<>>
    /\ ret = [op |-> "start"]
    /\ seen = <<>>

\* ------------------------------------------------------------ helper
\* str.lower() on the labels of this model.
Lower(s) == IF s = "Fungal infection" THEN "fungal infection" ELSE s

\* Mutant of Match: the keys are compared after lower-casing.
MatchIgnoreCase(table, key, dis) == SelectSeq(table, LAMBDA r : Lower(r[key]) = Lower(dis))

Match(table, key, dis) == SelectSeq(table, LAMBDA r : r[key] = dis)

Column(rows, c) == [ i \in 1..Len(rows) |-> rows[i][c] ]

\* Mutant of Join: the separator is dropped.
RECURSIVE JoinNoSep(_, _)
JoinNoSep(sep, ws) == IF ws = <<>> THEN "" ELSE ws[1] \o JoinNoSep(sep, Tail(ws))

\* sep.join(ws)
RECURSIVE Join(_, _)
Join(sep, ws) ==
    IF ws = <<>> THEN ""
    ELSE IF Len(ws) = 1 THEN ws[1]
    ELSE ws[1] \o sep \o Join(sep, Tail(ws))

helper_desc(dis) == Join(" ", Column(Match(description, "Disease", dis), "Description"))

\* pre.values: one array of the four precaution columns per matched row.
helper_pre(dis) ==
    LET rows == Match(precautions, "Disease", dis)
    IN  [ i \in 1..Len(rows) |->
            << rows[i].Precaution_1, rows[i].Precaution_2,
               rows[i].Precaution_3, rows[i].Precaution_4 >> ]

\* Mutant of helper_med: a medication already listed is not listed again.
helper_med_unique(dis) ==
    LET meds == Column(Match(medications, "Disease", dis), "Medication")
        kept == SelectSeq([ i \in 1..Len(meds) |-> <<i, meds[i]>> ],
                          LAMBDA e : \A j \in 1..(e[1] - 1) : meds[j] # e[2])
    IN  [ i \in 1..Len(kept) |-> kept[i][2] ]

helper_med(dis) == Column(Match(medications, "Disease", dis), "Medication")

helper_die(dis) == Column(Match(diets, "Disease", dis), "Diet")

helper_wrkout(dis) == Column(Match(workout, "disease", dis), "workout")

\* Mutant of helper: once a report is stored, its bundle is handed back.
helper_stale(dis) ==
    IF "report_data" \in DOMAIN session_state
    THEN LET d == session_state["report_data"]
         IN  [ desc |-> d.desc, pre |-> d.pre, med |-> d.med, die |-> d.die,
               wrkout |-> d.wrkout ]
    ELSE [ desc |-> helper_desc(dis), pre |-> helper_pre(dis), med |-> helper_med(dis),
           die |-> helper_die(dis), wrkout |-> helper_wrkout(dis) ]

helper(dis) ==
    [ desc |-> helper_desc(dis), pre |-> helper_pre(dis), med |-> helper_med(dis),
      die |-> helper_die(dis), wrkout |-> helper_wrkout(dis) ]

\* ------------------------------------------------------------ encoder
\* Mutant of mark_items: the loop ends after its first item.
mark_items_first(input_vector, items) ==
    IF items = <<>> THEN input_vector
    ELSE IF Head(items) \in DOMAIN symptoms_dict
         THEN [input_vector EXCEPT ![symptoms_dict[Head(items)] + 1] = 1]
         ELSE input_vector

\* Mutant of mark_items: a name the index lacks is read as offset 0
\* (symptoms_dict.get(item, 0)).
RECURSIVE mark_items_default(_, _)
mark_items_default(input_vector, items) ==
    IF items = <<>> THEN input_vector
    ELSE LET item == Head(items)
             at == IF item \in DOMAIN symptoms_dict THEN symptoms_dict[item] ELSE 0
         IN  mark_items_default([input_vector EXCEPT ![at + 1] = 1], Tail(items))

RECURSIVE mark_items(_, _)
mark_items(input_vector, items) ==
    IF items = <<>> THEN input_vector
    ELSE LET item == Head(items)
         IN  mark_items(
                IF item \in DOMAIN symptoms_dict
                THEN [input_vector EXCEPT ![symptoms_dict[item] + 1] = 1]
                ELSE input_vector,
                Tail(items))

get_predicted_value(patient_symptoms) ==
    LET input_vector == mark_items([i \in 1..Cardinality(DOMAIN symptoms_dict) |-> 0],
                                   patient_symptoms)
        X_input == [columns |-> DictKeys(symptoms_dict), row |-> input_vector]
    IN  [X_input |-> X_input, pred |-> svc[X_input.row], raised |-> ""]

\* ------------------------------------------------------------ actions
Remember(dis, bundle) ==
    seen' = IF dis \in DOMAIN seen THEN seen ELSE (dis :> bundle) @@ seen

CallHelper(dis) ==
    /\ ret' = [op |-> "helper", arg |-> dis, out |-> helper(dis), raised |-> ""]
    /\ Remember(dis, helper(dis))
    /\ UNCHANGED <<loaded, page, session_state>>

\* Mutant of CallEncode: the loop writes the index instead of the vector
\* (symptoms_dict[item] = 1).
CallEncodeWritesIndex(patient_symptoms) ==
    LET r == get_predicted_value(patient_symptoms)
        known == { patient_symptoms[i] : i \in 1..Len(patient_symptoms) }
                    \cap DOMAIN symptoms_dict
    IN  /\ ret' = [op |-> "get_predicted_value", arg |-> patient_symptoms,
                   out |-> r, raised |-> r.raised]
        /\ symptoms_dict' = [ name \in DOMAIN symptoms_dict |->
                                IF name \in known THEN 1 ELSE symptoms_dict[name] ]
        /\ UNCHANGED <<training_columns, svc, tables, page, session_state, seen>>

CallEncode(patient_symptoms) ==
    LET r == get_predicted_value(patient_symptoms)
    IN  /\ ret' = [op |-> "get_predicted_value", arg |-> patient_symptoms,
                   out |-> r, raised |-> r.raised]
        /\ UNCHANGED <<loaded, page, session_state, seen>>

\* ------------------------------------------------------------ report
\* The items generate_pdf_report puts in each bullet list: the cells that pass
\* "if p and str(p).strip()", in order (the Paragraph built from each is not
\* modelled).  precautions is helper's pre; its first row is the one read.
pdf_items(cells) == SelectSeq(cells, LAMBDA p : truthy(p) /\ strip(str(p)) # "")

AsCells(texts) == [ i \in 1..Len(texts) |-> Text(texts[i]) ]

generate_pdf_report(disease_name, desc, pre, med, die, wrkout) ==
    [ disease_name |-> disease_name,
      desc |-> desc,
      prec_items |-> pdf_items(pre[1]),
      med_items |-> pdf_items(AsCells(med)),
      diet_items |-> pdf_items(AsCells(die)),
      workout_items |-> pdf_items(AsCells(wrkout)) ]

\* ------------------------------------------------------------ pages
\* What a script run wrote to the page.  "for p in pre[0]" raises IndexError
\* on an empty pre and ends the run: nothing after it is written.
NothingShown ==
    [ disease |-> "", desc |-> "", pre |-> <<>>, med |-> <<>>, die |-> <<>>, wrkout |-> <<>> ]

Shown(dis, b) ==
    IF b.pre = <<>>
    THEN [NothingShown EXCEPT !.disease = dis, !.desc = b.desc]
    ELSE [ disease |-> dis, desc |-> b.desc, pre |-> b.pre[1], med |-> b.med,
           die |-> b.die, wrkout |-> b.wrkout ]

Raised(b) == IF b.pre = <<>> THEN "IndexError" ELSE ""

Navigate(p) ==
    /\ page' = p
    /\ UNCHANGED <<loaded, session_state, ret, seen>>

\* Mutant of PressPredict: the empty selection is not turned away.
PressPredictNoGuard(selected_symptoms) ==
    /\ page = "Predict Disease"
    /\ LET predicted_disease == get_predicted_value(selected_symptoms).pred
           b == helper(predicted_disease)
       IN  /\ session_state' = ("predicted_disease" :> predicted_disease) @@ session_state
           /\ Remember(predicted_disease, b)
           /\ ret' = [op |-> "predict", arg |-> selected_symptoms, warning |-> FALSE,
                      shown |-> Shown(predicted_disease, b), raised |-> Raised(b)]
    /\ UNCHANGED <<loaded, page>>

\* The Predict button, pressed with the multiselect holding selected_symptoms.
PressPredict(selected_symptoms) ==
    /\ page = "Predict Disease"
    /\ IF selected_symptoms = <<>>
       THEN /\ ret' = [op |-> "predict", arg |-> selected_symptoms, warning |-> TRUE,
                       shown |-> NothingShown, raised |-> ""]
            /\ UNCHANGED <<session_state, seen>>
       ELSE LET predicted_disease == get_predicted_value(selected_symptoms).pred
                b == helper(predicted_disease)
            IN  /\ session_state' = ("predicted_disease" :> predicted_disease) @@ session_state
                /\ Remember(predicted_disease, b)
                /\ ret' = [op |-> "predict", arg |-> selected_symptoms, warning |-> FALSE,
                           shown |-> Shown(predicted_disease, b), raised |-> Raised(b)]
    /\ UNCHANGED <<loaded, page>>

\* The sidebar's PDF Full Report button.
PressReport ==
    /\ IF "predicted_disease" \notin DOMAIN session_state
       THEN /\ ret' = [op |-> "report", warning |-> TRUE, shown |-> NothingShown,
                       pdf |-> <<>>, raised |-> ""]
            /\ UNCHANGED <<session_state, seen>>
       ELSE LET dis == session_state["predicted_disease"]
                b == helper(dis)
            IN  /\ session_state' =
                      ("report_data" :> [disease |-> dis, desc |-> b.desc, pre |-> b.pre,
                                         med |-> b.med, die |-> b.die, wrkout |-> b.wrkout])
                      @@ session_state
                /\ Remember(dis, b)
                /\ ret' = [op |-> "report", warning |-> FALSE, shown |-> Shown(dis, b),
                           pdf |-> IF b.pre = <<>> THEN <<>>
                                   ELSE << generate_pdf_report(dis, b.desc, b.pre, b.med,
                                                               b.die, b.wrkout) >>,
                           raised |-> Raised(b)]
    /\ UNCHANGED <<loaded, page>>

\* ------------------------------------------------------------ specifications
Columns3 == <<"itching", "skin_rash", "nodal_skin_eruptions", "prognosis">>

\* The application.  "Acne" is a label the classifier knows and no table holds;
\* the precautions table may also lack the other label.
Init ==
    /\ training_columns = Columns3
    /\ symptoms_dict = BuildIndex(training_columns)
    /\ svc \in Classifiers(Len(training_columns) - 1)
    /\ description = BaseDescription
    /\ precautions \in {<<>>, BasePrecautions}
    /\ medications = BaseMedications
    /\ diets = BaseDiets
    /\ workout = BaseWorkout
    /\ Started

Next ==
    \/ \E p \in Pages : Navigate(p)
    \/ \E sel \in DistinctUpTo(DOMAIN symptoms_dict, MaxSel) : PressPredict(sel)
    \/ PressReport
    \/ \E dis \in Labels : CallHelper(dis)
    \/ \E s \in ListsUpTo(Names, MaxSel) : CallEncode(s)

Spec == Init /\ [][Next]_vars

\* The lookup alone: one table at a time is drawn in full, the other four are
\* empty or the base table.
Drawn(focus, name, rows, base) ==
    IF focus = name THEN TablesUpTo(rows, MaxRows) ELSE {<<>>, base}

InitLookup ==
    /\ training_columns = Columns3
    /\ symptoms_dict = BuildIndex(training_columns)
    /\ svc = CHOOSE c \in Classifiers(Len(training_columns) - 1) : TRUE
    /\ \E focus \in {"description", "precautions", "medications", "diets", "workout"} :
          /\ description \in Drawn(focus, "description", DescriptionRows, BaseDescription)
          /\ precautions \in Drawn(focus, "precautions", PrecautionRows, BasePrecautions)
          /\ medications \in Drawn(focus, "medications", MedicationRows, BaseMedications)
          /\ diets \in Drawn(focus, "diets", DietRows, BaseDiets)
          /\ workout \in Drawn(focus, "workout", WorkoutRows, BaseWorkout)
    /\ Started

NextLookup == \E dis \in Labels : CallHelper(dis)

SpecLookup == InitLookup /\ [][NextLookup]_vars

\* The encoder alone: the training table's feature columns are drawn.
InitEncode ==
    /\ \E features \in DistinctUpTo(FeatureNames, MaxCols) :
          /\ features # <<>>
          /\ training_columns = Append(features, "prognosis")
    /\ symptoms_dict = BuildIndex(training_columns)
    /\ svc = CHOOSE c \in Classifiers(Len(training_columns) - 1) : TRUE
    /\ description = BaseDescription
    /\ precautions = BasePrecautions
    /\ medications = BaseMedications
    /\ diets = BaseDiets
    /\ workout = BaseWorkout
    /\ Started

NextEncode == \E s \in ListsUpTo(Names, MaxSel) : CallEncode(s)

SpecEncode == InitEncode /\ [][NextEncode]_vars

\* ------------------------------------------------------------ properties
Range(s) == { s[i] : i \in 1..Len(s) }

\* The column c of the rows of t keyed d, read off the table row by row.
RECURSIVE Collect(_, _, _, _)
Collect(t, k, c, d) ==
    IF t = <<>> THEN <<>>
    ELSE (IF Head(t)[k] = d THEN << Head(t)[c] >> ELSE <<>>) \o Collect(Tail(t), k, c, d)

NoRows(d) ==
    /\ \A i \in 1..Len(description) : description[i].Disease # d
    /\ \A i \in 1..Len(precautions) : precautions[i].Disease # d
    /\ \A i \in 1..Len(medications) : medications[i].Disease # d
    /\ \A i \in 1..Len(diets) : diets[i].Disease # d
    /\ \A i \in 1..Len(workout) : workout[i].disease # d

EmptyBundle == [ desc |-> "", pre |-> <<>>, med |-> <<>>, die |-> <<>>, wrkout |-> <<>> ]

PageRun == ret.op \in {"predict", "report"} /\ ~ret.warning

\* C1: a label D with no row in any of the five tables resolves without an
\* exception, in helper and in the Predict and Full Report runs that use its
\* result, and every field of the answer is empty.
C1_NoMatchNeverRaises ==
    /\ (ret.op = "helper" /\ NoRows(ret.arg)) => (ret.raised = "" /\ ret.out = EmptyBundle)
    /\ (PageRun /\ NoRows(ret.shown.disease)) =>
          /\ ret.raised = ""
          /\ ret.shown = [NothingShown EXCEPT !.disease = ret.shown.disease]

\* A precaution field that is there: not an empty cell, not a blank text.
Present(p) == p # NaN /\ strip(p[1]) # ""

FirstPrecautionRow(d) ==
    LET i == CHOOSE i \in 1..Len(precautions) :
                /\ precautions[i].Disease = d
                /\ \A j \in 1..(i - 1) : precautions[j].Disease # d
    IN  << precautions[i].Precaution_1, precautions[i].Precaution_2,
           precautions[i].Precaution_3, precautions[i].Precaution_4 >>

\* C2: for a label with a matching precautions row, the precaution list of the
\* answer (on the page, in the PDF) is the first matched row's Precaution_1..4
\* in order, the empty and missing ones removed.
C2_PrecautionsFiltered ==
    (PageRun /\ ret.raised = "") =>
        LET want == SelectSeq(FirstPrecautionRow(ret.shown.disease), Present)
        IN  /\ ret.shown.pre = want
            /\ ret.op = "report" => ret.pdf[1].prec_items = want

\* C3: the row handed to the classifier has one entry per feature column of the
\* training table (all but the last), 1 exactly where the column's name is
\* among the symptoms given, 0 elsewhere, under the columns in index order.
C3_IndicatorVector ==
    ret.op = "get_predicted_value" =>
        LET N == Len(training_columns) - 1
            X == ret.out.X_input
        IN  /\ Len(X.row) = N
            /\ \A i \in 1..N :
                  X.row[i] = IF training_columns[i] \in Range(ret.arg) THEN 1 ELSE 0
            /\ X.columns = SubSeq(training_columns, 1, N)
            /\ ret.out.pred = svc[X.row]

C3_Witness ==
    /\ ret.op = "get_predicted_value"
    /\ Len(ret.arg) = 2 /\ ret.arg[1] = ret.arg[2]
    /\ ret.arg[1] = training_columns[2]
    /\ ret.out.X_input.row = <<0, 1>>

Known(s) == SelectSeq(s, LAMBDA name : name \in DOMAIN symptoms_dict)

\* C4: names the index lacks change nothing: the row for S is the row for the
\* known names of S, no exception is raised, and with no known name the row is
\* all zeros.
C4_UnknownIgnored ==
    ret.op = "get_predicted_value" =>
        /\ ret.raised = ""
        /\ ret.out.X_input.row = get_predicted_value(Known(ret.arg)).X_input.row
        /\ Known(ret.arg) = <<>> =>
              ret.out.X_input.row = [i \in 1..(Len(training_columns) - 1) |-> 0]

C4_Witness ==
    /\ ret.op = "get_predicted_value"
    /\ Len(ret.arg) = 2
    /\ ret.arg[1] \notin DOMAIN symptoms_dict
    /\ ret.arg[2] \in DOMAIN symptoms_dict
    /\ ret.out.X_input.row[symptoms_dict[ret.arg[2]] + 1] = 1

\* C5: the medication, diet and workout lists are the text column of the rows
\* keyed D, in table order, repetitions kept; none when no row is keyed D.
C5_ListsInRowOrder ==
    ret.op = "helper" =>
        /\ ret.out.med = Collect(medications, "Disease", "Medication", ret.arg)
        /\ ret.out.die = Collect(diets, "Disease", "Diet", ret.arg)
        /\ ret.out.wrkout = Collect(workout, "disease", "workout", ret.arg)

C5_Witness ==
    /\ ret.op = "helper"
    /\ ret.out.med = <<"Fluconazole", "Fluconazole">>

\* The texts with one space between neighbours, built from the last one back.
RECURSIVE Spaced(_)
Spaced(ws) ==
    IF ws = <<>> THEN ""
    ELSE IF Len(ws) = 1 THEN ws[1]
    ELSE Spaced(SubSeq(ws, 1, Len(ws) - 1)) \o " " \o ws[Len(ws)]

CaseVariant(a, b) == a # b /\ Lower(a) = Lower(b)

Unvaried(t, k, d) == SelectSeq(t, LAMBDA r : ~CaseVariant(r[k], d))

PrecautionRowsOf(t, d) ==
    LET c(n) == Collect(t, "Disease", n, d)
    IN  [ i \in 1..Len(c("Precaution_1")) |->
            << c("Precaution_1")[i], c("Precaution_2")[i],
               c("Precaution_3")[i], c("Precaution_4")[i] >> ]

\* C7: in each of the five tables a row whose key differs from D only in letter
\* case adds nothing to the answer for D: the answer is the one the tables give
\* with those rows taken out.
C7_ExactKeyMatch ==
    ret.op = "helper" =>
        LET d == ret.arg
        IN  /\ ret.out.desc =
                  Spaced(Collect(Unvaried(description, "Disease", d), "Disease", "Description", d))
            /\ ret.out.pre = PrecautionRowsOf(Unvaried(precautions, "Disease", d), d)
            /\ ret.out.med = Collect(Unvaried(medications, "Disease", d), "Disease", "Medication", d)
            /\ ret.out.die = Collect(Unvaried(diets, "Disease", d), "Disease", "Diet", d)
            /\ ret.out.wrkout = Collect(Unvaried(workout, "disease", d), "disease", "workout", d)

C7_Witness ==
    /\ ret.op = "helper"
    /\ ret.arg = "fungal infection"
    /\ \E i \in 1..Len(description) : description[i].Disease = "Fungal infection"
    /\ \E i \in 1..Len(workout) : workout[i].disease = "Fungal infection"
    /\ ret.out.desc = ""
    /\ ret.out.wrkout = <<>>

\* C8: no encode, lookup, Predict or Full Report step writes the five reference
\* tables or the symptom index: they stay what they were at startup.
C8_TablesNeverWritten ==
    [][ <<tables, symptoms_dict>>' = <<tables, symptoms_dict>> ]_vars

C8_Witness ==
    /\ ret.op = "get_predicted_value"
    /\ Range(ret.arg) \cap DOMAIN symptoms_dict # {}
    /\ "report_data" \in DOMAIN session_state
    /\ Cardinality(DOMAIN seen) = 3

\* C9: every call of helper on D returns, field for field, the bundle its first
\* call on D returned, whatever encode and lookup calls came in between.
C9_SameBundleAgain ==
    /\ ret.op = "helper" => ret.out = seen[ret.arg]
    /\ "report_data" \in DOMAIN session_state =>
          LET d == session_state["report_data"]
          IN  [ desc |-> d.desc, pre |-> d.pre, med |-> d.med, die |-> d.die,
                wrkout |-> d.wrkout ] = seen[d.disease]

C9_Witness ==
    /\ ret.op = "helper"
    /\ ret.out.pre # <<>>
    /\ "report_data" \in DOMAIN session_state
    /\ session_state["report_data"].disease = ret.arg
    /\ Cardinality(DOMAIN seen) = 3

\* The indicator row of a selection, position by position.
Indicator(sel) ==
    [ i \in 1..(Len(training_columns) - 1) |->
        IF training_columns[i] \in Range(sel) THEN 1 ELSE 0 ]

ReportData(d) ==
    [ disease |-> d, desc |-> helper(d).desc, pre |-> helper(d).pre, med |-> helper(d).med,
      die |-> helper(d).die, wrkout |-> helper(d).wrkout ]

\* After a run the stored state is what the run's button makes it.
C10_AfterRun ==
    /\ (ret.op = "predict" /\ ~ret.warning) =>
          /\ ret.arg # <<>>
          /\ session_state["predicted_disease"] = svc[Indicator(ret.arg)]
    /\ (ret.op = "predict" /\ ret.warning) => ret.arg = <<>>
    /\ (ret.op = "report" /\ ~ret.warning) =>
          /\ "predicted_disease" \in DOMAIN session_state
          /\ session_state["report_data"] = ReportData(session_state["predicted_disease"])
    /\ (ret.op = "report" /\ ret.warning) => session_state = <<>>

\* The stored state changes only by a Predict press with a selection or by a
\* Full Report press with a label stored.
C10_OnlyChange ==
    session_state' # session_state =>
        \/ /\ ret'.op = "predict" /\ ret'.arg # <<>>
           /\ session_state' =
                 ("predicted_disease" :> svc[Indicator(ret'.arg)]) @@ session_state
        \/ /\ ret'.op = "report"
           /\ "predicted_disease" \in DOMAIN session_state
           /\ session_state' =
                 ("report_data" :> ReportData(session_state["predicted_disease"]))
                 @@ session_state

\* C10: predicted_disease is absent until a Predict press has a selection, and
\* then is the classifier's label for the latest such press (a press with no
\* selection warns and changes nothing); a Full Report press stores report data
\* for the stored label and for no other, and with no label stored it warns
\* and stores nothing.
C10_SessionState ==
    /\ session_state = <<>>
    /\ []C10_AfterRun
    /\ [][C10_OnlyChange]_vars

C10_Witness ==
    /\ ret.op = "predict" /\ ret.warning
    /\ "report_data" \in DOMAIN session_state
    /\ session_state["report_data"].disease # session_state["predicted_disease"]
====
